---- MODULE Spec2Model ----
(***************************************************************************)
(* VIA-Mapper (run.py): conversion of VIA keyboard configurations between  *)
(* the Keychron Q1 Pro and the GMMK Pro.                                   *)
(*                                                                         *)
(* Python lists are modelled as functions over 0..n-1 (the source's        *)
(* indices are kept), Python dicts as functions over their keys.  A call   *)
(* that may raise returns a record [exc, ret]: exc is "None" when the call *)
(* returns ret, and the name of the exception otherwise.                   *)
(***************************************************************************)
EXTENDS Integers, Sequences, FiniteSets, TLC

VARIABLES
    pc,          \* position of main()
    file,        \* the content of the file named on the command line
    config,      \* the parsed input configuration (main's local `config`)
    keyboard,    \* main's local `keyboard`
    new_config,  \* main's local `new_config`
    stdout,      \* documents printed on standard output, in order
    stderr,      \* lines printed on standard error, in order
    exit_status, \* the process's exit status, -1 while it runs
    history,     \* the input files of the earlier runs, when the tool is re-run on its output
    old,         \* get_mapping's argument `old`
    new,         \* get_mapping's argument `new`
    mapping      \* get_mapping's result

vars == <<pc, file, config, keyboard, new_config, stdout, stderr, exit_status,
          history, old, new, mapping>>

\* ------------------------------------------------------------------ bounds

MaxLayers == 2

MaxRuns == 4

MaxLayoutLen == 3

\* ------------------------------------------------------------ Python lists

FromList(s) == [i \in 0..(Len(s) - 1) |-> s[i + 1]]

len(l) == Cardinality(DOMAIN l)

EmptyList == [i \in {} |-> "KC_NO"]

\* A Python dict keeps its keys in insertion order: `keys` is that order
\* (what items() iterates over) and `val` the key-value function.
EmptyDict == [keys |-> <<>>, val |-> [k \in {} |-> k]]

\* d[k] = v
SetItem(d, k, v) ==
    [keys |-> IF k \in DOMAIN d.val THEN d.keys ELSE Append(d.keys, k),
     val |-> (k :> v) @@ d.val]

\* The outcome of a call: it returns v, or raises e.
Returned(v) == [exc |-> "None", ret |-> v]

Raised(e) == [exc |-> e, ret |-> "None"]

\* ------------------------------------------------------------ static tables

\* Variant: position 13 keeps its default KC_DEL instead of KC_PSCR.
KEYCHRON_LAYER_default_del ==
    FromList(<<
        "KC_ESC", "KC_F1", "KC_F2", "KC_F3", "KC_F4", "KC_F5", "KC_F6", "KC_F7",
        "KC_F8", "KC_F9", "KC_F10", "KC_F11", "KC_F12", "KC_DEL", "KC_NO", "KC_MUTE",
        "KC_GRV", "KC_1", "KC_2", "KC_3", "KC_4", "KC_5", "KC_6", "KC_7",
        "KC_8", "KC_9", "KC_0", "KC_MINS", "KC_EQL", "KC_BSPC", "KC_NO", "KC_PGUP",
        "KC_TAB", "KC_Q", "KC_W", "KC_E", "KC_R", "KC_T", "KC_Y", "KC_U",
        "KC_I", "KC_O", "KC_P", "KC_LBRC", "KC_RBRC", "KC_BSLS", "KC_NO", "KC_PGDN",
        "KC_CAPS", "KC_A", "KC_S", "KC_D", "KC_F", "KC_G", "KC_H", "KC_J",
        "KC_K", "KC_L", "KC_SCLN", "KC_QUOT", "KC_NO", "KC_ENT", "KC_NO", "KC_HOME",
        "KC_LSFT", "KC_NO", "KC_Z", "KC_X", "KC_C", "KC_V", "KC_B", "KC_N",
        "KC_M", "KC_COMM", "KC_DOT", "KC_SLSH", "KC_NO", "KC_RSFT", "KC_UP", "KC_NO",
        "KC_LCTL", "KC_LGUI", "KC_LALT", "KC_NO", "KC_NO", "KC_NO", "KC_SPC", "KC_NO",
        "KC_NO", "KC_NO", "KC_RALT", "KC_FN", "KC_RCTL", "KC_LEFT", "KC_DOWN", "KC_RGHT"
    >>)

KEYCHRON_LAYER ==
    FromList(<<
        "KC_ESC", "KC_F1", "KC_F2", "KC_F3", "KC_F4", "KC_F5", "KC_F6", "KC_F7",
        "KC_F8", "KC_F9", "KC_F10", "KC_F11", "KC_F12", "KC_PSCR", "KC_NO", "KC_MUTE",
        "KC_GRV", "KC_1", "KC_2", "KC_3", "KC_4", "KC_5", "KC_6", "KC_7",
        "KC_8", "KC_9", "KC_0", "KC_MINS", "KC_EQL", "KC_BSPC", "KC_NO", "KC_PGUP",
        "KC_TAB", "KC_Q", "KC_W", "KC_E", "KC_R", "KC_T", "KC_Y", "KC_U",
        "KC_I", "KC_O", "KC_P", "KC_LBRC", "KC_RBRC", "KC_BSLS", "KC_NO", "KC_PGDN",
        "KC_CAPS", "KC_A", "KC_S", "KC_D", "KC_F", "KC_G", "KC_H", "KC_J",
        "KC_K", "KC_L", "KC_SCLN", "KC_QUOT", "KC_NO", "KC_ENT", "KC_NO", "KC_HOME",
        "KC_LSFT", "KC_NO", "KC_Z", "KC_X", "KC_C", "KC_V", "KC_B", "KC_N",
        "KC_M", "KC_COMM", "KC_DOT", "KC_SLSH", "KC_NO", "KC_RSFT", "KC_UP", "KC_NO",
        "KC_LCTL", "KC_LGUI", "KC_LALT", "KC_NO", "KC_NO", "KC_NO", "KC_SPC", "KC_NO",
        "KC_NO", "KC_NO", "KC_RALT", "KC_FN", "KC_RCTL", "KC_LEFT", "KC_DOWN", "KC_RGHT"
    >>)

\* Variant: position 61 keeps its default KC_END instead of KC_HOME.
GMMK_LAYER_default_end ==
    FromList(<<
        "KC_LSFT", "KC_MUTE", "KC_NO", "KC_LEFT", "KC_RCTL", "KC_RGHT", "KC_LCTL", "KC_F5",
        "KC_Q", "KC_TAB", "KC_A", "KC_ESC", "KC_Z", "KC_PGUP", "KC_GRV", "KC_1",
        "KC_W", "KC_CAPS", "KC_S", "KC_NO", "KC_X", "KC_PGDN", "KC_F1", "KC_2",
        "KC_E", "KC_F3", "KC_D", "KC_F4", "KC_C", "KC_UP", "KC_F2", "KC_3",
        "KC_R", "KC_T", "KC_F", "KC_G", "KC_V", "KC_B", "KC_5", "KC_4",
        "KC_U", "KC_Y", "KC_J", "KC_H", "KC_M", "KC_N", "KC_6", "KC_7",
        "KC_I", "KC_RBRC", "KC_K", "KC_F6", "KC_COMM", "KC_DEL", "KC_EQL", "KC_8",
        "KC_O", "KC_F7", "KC_L", "KC_DOWN", "KC_DOT", "KC_END", "KC_F8", "KC_9",
        "KC_P", "KC_LBRC", "KC_SCLN", "KC_QUOT", "KC_NO", "KC_SLSH", "KC_MINS", "KC_0",
        "KC_LGUI", "KC_RSFT", "KC_FN", "KC_LALT", "KC_SPC", "KC_RALT", "KC_NO", "KC_PSCR",
        "KC_NO", "KC_BSPC", "KC_BSLS", "KC_F11", "KC_ENT", "KC_F12", "KC_F9", "KC_F10"
    >>)

GMMK_LAYER ==
    FromList(<<
        "KC_LSFT", "KC_MUTE", "KC_NO", "KC_LEFT", "KC_RCTL", "KC_RGHT", "KC_LCTL", "KC_F5",
        "KC_Q", "KC_TAB", "KC_A", "KC_ESC", "KC_Z", "KC_PGUP", "KC_GRV", "KC_1",
        "KC_W", "KC_CAPS", "KC_S", "KC_NO", "KC_X", "KC_PGDN", "KC_F1", "KC_2",
        "KC_E", "KC_F3", "KC_D", "KC_F4", "KC_C", "KC_UP", "KC_F2", "KC_3",
        "KC_R", "KC_T", "KC_F", "KC_G", "KC_V", "KC_B", "KC_5", "KC_4",
        "KC_U", "KC_Y", "KC_J", "KC_H", "KC_M", "KC_N", "KC_6", "KC_7",
        "KC_I", "KC_RBRC", "KC_K", "KC_F6", "KC_COMM", "KC_DEL", "KC_EQL", "KC_8",
        "KC_O", "KC_F7", "KC_L", "KC_DOWN", "KC_DOT", "KC_HOME", "KC_F8", "KC_9",
        "KC_P", "KC_LBRC", "KC_SCLN", "KC_QUOT", "KC_NO", "KC_SLSH", "KC_MINS", "KC_0",
        "KC_LGUI", "KC_RSFT", "KC_FN", "KC_LALT", "KC_SPC", "KC_RALT", "KC_NO", "KC_PSCR",
        "KC_NO", "KC_BSPC", "KC_BSLS", "KC_F11", "KC_ENT", "KC_F12", "KC_F9", "KC_F10"
    >>)

KEYCHRON_FIXES ==
    SetItem(SetItem(SetItem(EmptyDict, "CUSTOM(0)", "KC_LALT"),
                    "CUSTOM(1)", "KC_RALT"),
            "CUSTOM(3)", "KC_RGUI")

GMMK_FIXES == EmptyDict

KEYCHRON_INFO ==
    [name |-> "Keyboard 81 Pro/Q1 Pro ANSI RGB Knob", vendorProductId |-> 875824656]

GMMK_INFO == [name |-> "GMMK Pro", vendorProductId |-> 839864388]

\* ---------------------------------------------------------- pure functions

\* Variant: matches on the vendor half of the identifier only.
detect_keyboard_vendor_only(cfg) ==
    IF "vendorProductId" \notin DOMAIN cfg THEN Raised("KeyError")
    ELSE IF cfg["vendorProductId"] \div 65536 = KEYCHRON_INFO["vendorProductId"] \div 65536
         THEN Returned("KEYCHRON")
    ELSE IF cfg["vendorProductId"] \div 65536 = GMMK_INFO["vendorProductId"] \div 65536
         THEN Returned("GMMK")
    ELSE Returned("None")

\* detect_keyboard: config[key] raises KeyError when the key is absent.
detect_keyboard(cfg) ==
    IF "vendorProductId" \notin DOMAIN cfg THEN Raised("KeyError")
    ELSE IF cfg["vendorProductId"] = KEYCHRON_INFO["vendorProductId"] THEN Returned("KEYCHRON")
    ELSE IF cfg["vendorProductId"] = GMMK_INFO["vendorProductId"] THEN Returned("GMMK")
    ELSE Returned("None")

\* Variant: the last position holding key.
list_index_last(l, key) ==
    CHOOSE j \in DOMAIN l : l[j] = key /\ \A k \in DOMAIN l : k > j => l[k] # key

\* list.index(key): the first position holding key.  It is used only where
\* key occurs in l (Python raises ValueError otherwise, which get_mapping
\* catches).
list_index(l, key) ==
    CHOOSE j \in DOMAIN l : l[j] = key /\ \A k \in 0..(j - 1) : l[k] # key

\* get_mapping: the loop visits the positions of `old` in order and inserts
\* i -> new.index(old[i]) for each position whose token is not the placeholder
\* and occurs in `new` (no ValueError); the iterations do not depend on one
\* another, so the dict is given by its keys, in order, and their values.
get_mapping(old_, new_) ==
    LET Mapped(i) == old_[i] # "KC_NO" /\ \E j \in DOMAIN new_ : new_[j] = old_[i]
    IN [keys |-> SelectSeq([n \in 1..len(old_) |-> n - 1], Mapped),
        val |-> [i \in {p \in DOMAIN old_ : Mapped(p)} |-> list_index(new_, old_[i])]]

\* Variant: the placeholder test reads layer[new_idx] instead of layer[idx].
map_layer_step_wrong_index(layer, mapping_, fixes, n, new_layer) ==
    LET idx == mapping_.keys[n]
        new_idx == mapping_.val[idx]
    IN IF new_idx \notin DOMAIN layer THEN Raised("IndexError")
       ELSE IF layer[new_idx] = "KC_NO" THEN Returned(new_layer)
       ELSE IF idx \notin DOMAIN layer \/ new_idx \notin DOMAIN new_layer
            THEN Raised("IndexError")
       ELSE Returned([new_layer EXCEPT ![new_idx] =
                IF layer[idx] \in DOMAIN fixes.val THEN fixes.val[layer[idx]]
                ELSE layer[idx]])

\* One iteration of map_layer's loop, for the n-th item (idx, new_idx) of the
\* mapping.  layer[idx] and new_layer[new_idx] raise IndexError out of range.
map_layer_step(layer, mapping_, fixes, n, new_layer) ==
    LET idx == mapping_.keys[n]
        new_idx == mapping_.val[idx]
    IN IF idx \notin DOMAIN layer THEN Raised("IndexError")
       ELSE IF layer[idx] = "KC_NO" THEN Returned(new_layer)
       ELSE IF new_idx \notin DOMAIN new_layer THEN Raised("IndexError")
       ELSE Returned([new_layer EXCEPT ![new_idx] =
                IF layer[idx] \in DOMAIN fixes.val THEN fixes.val[layer[idx]]
                ELSE layer[idx]])

\* The iterations for the items lo..hi-1 of mapping.items(), in order, from
\* the state acc = [exc, ret] of the loop; an exception ends the loop.
RECURSIVE map_layer_loop(_, _, _, _, _, _)
map_layer_loop(layer, mapping_, fixes, lo, hi, acc) ==
    IF acc.exc # "None" \/ lo >= hi THEN acc
    ELSE IF hi = lo + 1 THEN map_layer_step(layer, mapping_, fixes, lo, acc.ret)
    ELSE map_layer_loop(layer, mapping_, fixes, (lo + hi) \div 2, hi,
             map_layer_loop(layer, mapping_, fixes, lo, (lo + hi) \div 2, acc))

\* Variant: the new layer is as long as the input layer.
map_layer_input_sized(layer, layer_size, mapping_, fixes) ==
    map_layer_loop(layer, mapping_, fixes, 1, Len(mapping_.keys) + 1,
                   Returned([i \in 0..(len(layer) - 1) |-> "KC_NO"]))

map_layer(layer, layer_size, mapping_, fixes) ==
    map_layer_loop(layer, mapping_, fixes, 1, Len(mapping_.keys) + 1,
                   Returned([i \in 0..(layer_size - 1) |-> "KC_NO"]))

\* Variant: no copy, the caller's dict is updated in place.
_map_config_in_place(cfg, keyboard_info, layer_size, mapping_, fixes) ==
    IF "layers" \notin DOMAIN cfg
    THEN [exc |-> "KeyError", ret |-> "None", config |-> keyboard_info @@ cfg]
    ELSE LET mapped == [k \in DOMAIN cfg["layers"] |->
                           map_layer(cfg["layers"][k], layer_size, mapping_, fixes)]
             new_layers == [k \in DOMAIN mapped |-> mapped[k].ret]
         IN IF \E k \in DOMAIN mapped : mapped[k].exc # "None"
            THEN [exc |-> "IndexError", ret |-> "None", config |-> keyboard_info @@ cfg]
            ELSE [exc |-> "None",
                  ret |-> [layers |-> new_layers] @@ keyboard_info @@ cfg,
                  config |-> [layers |-> new_layers] @@ keyboard_info @@ cfg]

\* _map_config: the result also carries `config`, the caller's object as the
\* call leaves it (the source works on a copy and builds new lists).
_map_config(cfg, keyboard_info, layer_size, mapping_, fixes) ==
    IF "layers" \notin DOMAIN cfg THEN [exc |-> "KeyError", ret |-> "None", config |-> cfg]
    ELSE LET mapped == [k \in DOMAIN cfg["layers"] |->
                           map_layer(cfg["layers"][k], layer_size, mapping_, fixes)]
             new_layers == [k \in DOMAIN mapped |-> mapped[k].ret]
         IN IF \E k \in DOMAIN mapped : mapped[k].exc # "None"
            THEN [exc |-> "IndexError", ret |-> "None", config |-> cfg]
            ELSE [exc |-> "None",
                  ret |-> [layers |-> new_layers] @@ keyboard_info @@ cfg,
                  config |-> cfg]

\* Variant: the layer size is taken from the source keyboard's layout.
map_config_source_size(cfg, kb) ==
    LET is_keychron == kb = "KEYCHRON"
        keyboard_info == IF is_keychron THEN GMMK_INFO ELSE KEYCHRON_INFO
        layer_size == IF is_keychron THEN len(KEYCHRON_LAYER) ELSE len(GMMK_LAYER)
        fixes == IF is_keychron THEN KEYCHRON_FIXES ELSE GMMK_FIXES
        from_layer == IF is_keychron THEN KEYCHRON_LAYER ELSE GMMK_LAYER
        to_layer == IF is_keychron THEN GMMK_LAYER ELSE KEYCHRON_LAYER
    IN _map_config(cfg, keyboard_info, layer_size, get_mapping(from_layer, to_layer), fixes)

\* Variant: the fixup table is taken from the destination keyboard.
map_config_destination_fixes(cfg, kb) ==
    LET is_keychron == kb = "KEYCHRON"
        keyboard_info == IF is_keychron THEN GMMK_INFO ELSE KEYCHRON_INFO
        layer_size == IF is_keychron THEN len(GMMK_LAYER) ELSE len(KEYCHRON_LAYER)
        fixes == IF is_keychron THEN GMMK_FIXES ELSE KEYCHRON_FIXES
        from_layer == IF is_keychron THEN KEYCHRON_LAYER ELSE GMMK_LAYER
        to_layer == IF is_keychron THEN GMMK_LAYER ELSE KEYCHRON_LAYER
    IN _map_config(cfg, keyboard_info, layer_size, get_mapping(from_layer, to_layer), fixes)

map_config(cfg, kb) ==
    LET is_keychron == kb = "KEYCHRON"
        keyboard_info == IF is_keychron THEN GMMK_INFO ELSE KEYCHRON_INFO
        layer_size == IF is_keychron THEN len(GMMK_LAYER) ELSE len(KEYCHRON_LAYER)
        fixes == IF is_keychron THEN KEYCHRON_FIXES ELSE GMMK_FIXES
        from_layer == IF is_keychron THEN KEYCHRON_LAYER ELSE GMMK_LAYER
        to_layer == IF is_keychron THEN GMMK_LAYER ELSE KEYCHRON_LAYER
    IN _map_config(cfg, keyboard_info, layer_size, get_mapping(from_layer, to_layer), fixes)

\* json.dumps of a document, and parse_file of a file's content: json.load
\* raises on text that is no JSON document.
json_dumps(doc) == [json |-> doc]

parse_file(content) ==
    IF "json" \in DOMAIN content THEN Returned(content.json)
    ELSE Raised("JSONDecodeError")

\* ------------------------------------------------------------------ inputs

KeychronId == KEYCHRON_INFO["vendorProductId"]

GmmkId == GMMK_INFO["vendorProductId"]

\* Identifiers of no supported keyboard, the neighbours of the two included.
UnknownIds == {0, 1, KeychronId + 1, KeychronId - 1, GmmkId + 1, GmmkId - 1}

\* Tokens written into a layer: the placeholder, the three legacy tokens,
\* the GMMK's extra key and an ordinary key.
EditTokens == {"KC_NO", "KC_DEL", "KC_A", "CUSTOM(0)", "CUSTOM(1)", "CUSTOM(3)"}

SourceLayout(vid) == IF vid = GmmkId THEN GMMK_LAYER ELSE KEYCHRON_LAYER

Resize(l, n) == [i \in 0..(n - 1) |-> IF i \in DOMAIN l THEN l[i] ELSE "KC_TRNS"]

\* Layer k of an exported file: the base layer is the keyboard's default
\* layout, the upper layers are transparent.
BaseLayer(layout, k) == IF k = 0 THEN layout ELSE Resize(EmptyList, len(layout))

BaseLayers(layout, n) == [k \in 0..(n - 1) |-> BaseLayer(layout, k)]

\* Full-length layer lists: up to MaxLayers layers, one of them with one
\* position rebound to a token of EditTokens.
EditedLayerLists(layout) ==
    UNION {UNION {{[BaseLayers(layout, n) EXCEPT ![e][p] = t] :
                      p \in DOMAIN layout, t \in EditTokens} :
                  e \in 0..(n - 1)} :
           n \in 1..MaxLayers}

\* Layer lists with one layer of another length: empty, one short, one long,
\* and the other keyboard's length.
ResizedLayerLists(layout) ==
    UNION {UNION {{[BaseLayers(layout, n) EXCEPT ![e] = Resize(@, m)] :
                      m \in {0, len(layout) - 1, len(layout) + 1,
                             len(GMMK_LAYER), len(KEYCHRON_LAYER)}} :
                  e \in 0..(n - 1)} :
           n \in 1..MaxLayers}

Document(vid, layers) ==
    [vendorProductId |-> vid, name |-> "My Keyboard", layers |-> layers,
     macros |-> FromList(<<"{KC_A}", "">>)]

\* A document with only the two fields the schema requires.
MinimalDocument(vid, layers) == [vendorProductId |-> vid, layers |-> layers]

FullLengthDocuments(vid) ==
    {Document(vid, ls) : ls \in EditedLayerLists(SourceLayout(vid)) \cup {EmptyList}}

InputDocuments ==
    FullLengthDocuments(KeychronId) \cup FullLengthDocuments(GmmkId)
    \cup {Document(vid, ls) : vid \in {KeychronId, GmmkId},
                              ls \in ResizedLayerLists(KEYCHRON_LAYER)
                                     \cup ResizedLayerLists(GMMK_LAYER)}
    \cup {MinimalDocument(vid, BaseLayers(SourceLayout(vid), n)) :
              vid \in {KeychronId, GmmkId} \cup UnknownIds, n \in 0..MaxLayers}
    \cup {Document(vid, BaseLayers(KEYCHRON_LAYER, 1)) : vid \in UnknownIds}
    \cup {[name |-> "My Keyboard", layers |-> BaseLayers(KEYCHRON_LAYER, 1)],
          [name |-> "My Keyboard", vendorProductId |-> KeychronId],
          [name |-> "My Keyboard", vendorProductId |-> GmmkId]}

\* Small layouts over three tokens, duplicates and the placeholder included.
SmallLayouts ==
    UNION {[0..(n - 1) -> {"KC_NO", "KC_A", "KC_B"}] : n \in 0..MaxLayoutLen}

\* ------------------------------------------------------------- the program

NoMapping == <<>>

InitRun ==
    /\ pc = "parse"
    /\ config = "unset"
    /\ keyboard = "unset"
    /\ new_config = "unset"
    /\ stdout = <<>>
    /\ stderr = <<>>
    /\ exit_status = -1

\* The files: the input documents, and a text that is no JSON document.
InputFiles == {json_dumps(d) : d \in InputDocuments} \cup {[text |-> "{"]}

Init ==
    /\ file \in InputFiles
    /\ InitRun
    /\ history = <<>>
    /\ old = NoMapping /\ new = NoMapping /\ mapping = NoMapping

\* An exception no frame catches: the traceback goes to standard error and
\* the interpreter exits with status 1.
Uncaught(e) ==
    /\ stderr' = Append(stderr, "Traceback (most recent call last): " \o e)
    /\ exit_status' = 1
    /\ pc' = "exited"

\* main, line 11 (the arguments are parsed and the file is read)
ParseFile ==
    /\ pc = "parse"
    /\ LET r == parse_file(file)
       IN IF r.exc # "None"
          THEN Uncaught(r.exc) /\ UNCHANGED config
          ELSE /\ config' = r.ret
               /\ pc' = "detect"
               /\ UNCHANGED <<stderr, exit_status>>
    /\ UNCHANGED <<file, keyboard, new_config, stdout, history, old, new, mapping>>

\* main, line 12
DetectKeyboard ==
    /\ pc = "detect"
    /\ LET r == detect_keyboard(config)
       IN IF r.exc # "None"
          THEN Uncaught(r.exc) /\ UNCHANGED keyboard
          ELSE /\ keyboard' = r.ret
               /\ pc' = "check"
               /\ UNCHANGED <<stderr, exit_status>>
    /\ UNCHANGED <<file, config, new_config, stdout, history, old, new, mapping>>

\* Variant: the diagnostic is logged but the process does not exit.
FailedToDetect_no_exit ==
    /\ pc = "check"
    /\ keyboard = "None"
    /\ stderr' = Append(stderr, "Failed to detect which keyboard this config file is for.")
    /\ pc' = "map"
    /\ UNCHANGED <<file, config, keyboard, new_config, stdout, exit_status, history,
                   old, new, mapping>>

\* main, lines 14-16
FailedToDetect ==
    /\ pc = "check"
    /\ keyboard = "None"
    /\ stderr' = Append(stderr, "Failed to detect which keyboard this config file is for.")
    /\ exit_status' = 1
    /\ pc' = "exited"
    /\ UNCHANGED <<file, config, keyboard, new_config, stdout, history, old, new, mapping>>

announce_plan(kb) ==
    IF kb = "KEYCHRON"
    THEN <<"Detected Keychron Q1 Pro config.", "Mapping to a GMMK Pro config...">>
    ELSE IF kb = "GMMK"
    THEN <<"Detected GMMK Pro config.", "Mapping to a Keychron Q1 Pro config...">>
    ELSE <<>>

\* main, line 18
AnnouncePlan ==
    /\ pc = "check"
    /\ keyboard # "None"
    /\ stderr' = stderr \o announce_plan(keyboard)
    /\ pc' = "map"
    /\ UNCHANGED <<file, config, keyboard, new_config, stdout, exit_status, history,
                   old, new, mapping>>

\* main, line 19
MapConfig ==
    /\ pc = "map"
    /\ LET r == map_config(config, keyboard)
       IN /\ config' = r.config
          /\ IF r.exc # "None"
             THEN Uncaught(r.exc) /\ UNCHANGED new_config
             ELSE /\ new_config' = r.ret
                  /\ pc' = "print"
                  /\ UNCHANGED <<stderr, exit_status>>
    /\ UNCHANGED <<file, keyboard, stdout, history, old, new, mapping>>

\* main, line 20
PrintAsJson ==
    /\ pc = "print"
    /\ stdout' = Append(stdout, json_dumps(new_config))
    /\ pc' = "log"
    /\ UNCHANGED <<file, config, keyboard, new_config, stderr, exit_status, history,
                   old, new, mapping>>

\* main, line 21, and the normal end of the process
LogDone ==
    /\ pc = "log"
    /\ stderr' = Append(stderr, "Done.")
    /\ exit_status' = 0
    /\ pc' = "exited"
    /\ UNCHANGED <<file, config, keyboard, new_config, stdout, history, old, new, mapping>>

Next ==
    \/ ParseFile
    \/ DetectKeyboard
    \/ FailedToDetect
    \/ AnnouncePlan
    \/ MapConfig
    \/ PrintAsJson
    \/ LogDone

Spec == Init /\ [][Next]_vars

\* ------------------------------------------------- the tool run on its output

\* Round trips start from full-length GMMK files, and from one file of an
\* unknown keyboard, which ends the chain at once.
RoundTripTokens == {"KC_NO", "KC_A", "CUSTOM(0)", "CUSTOM(3)"}

RoundTripLayerLists ==
    {ls \in EditedLayerLists(GMMK_LAYER) :
        \A k \in DOMAIN ls : \A p \in DOMAIN ls[k] :
            ls[k][p] \in RoundTripTokens \cup {BaseLayer(GMMK_LAYER, k)[p]}}

RoundTripFiles ==
    {json_dumps(Document(GmmkId, ls)) : ls \in RoundTripLayerLists}
    \cup {json_dumps(Document(1, BaseLayers(GMMK_LAYER, 1)))}

InitRoundTrip ==
    /\ file \in RoundTripFiles
    /\ InitRun
    /\ history = <<>>
    /\ old = NoMapping /\ new = NoMapping /\ mapping = NoMapping

\* The user saves the JSON the run printed and runs the tool on that file.
Rerun ==
    /\ pc = "exited"
    /\ exit_status = 0
    /\ Len(history) + 1 < MaxRuns
    /\ history' = Append(history, file)
    /\ file' = stdout[Len(stdout)]
    /\ pc' = "parse"
    /\ config' = "unset"
    /\ keyboard' = "unset"
    /\ new_config' = "unset"
    /\ stdout' = <<>>
    /\ stderr' = <<>>
    /\ exit_status' = -1
    /\ UNCHANGED <<old, new, mapping>>

NextRoundTrip ==
    \/ ParseFile
    \/ DetectKeyboard
    \/ FailedToDetect
    \/ AnnouncePlan
    \/ MapConfig
    \/ PrintAsJson
    \/ LogDone
    \/ Rerun

SpecRoundTrip == InitRoundTrip /\ [][NextRoundTrip]_vars

\* ------------------------------------------------------ get_mapping alone

LayoutPairs ==
    (SmallLayouts \X SmallLayouts)
    \cup {<<KEYCHRON_LAYER, GMMK_LAYER>>, <<GMMK_LAYER, KEYCHRON_LAYER>>}

InitMapping ==
    /\ pc = "get_mapping"
    /\ \E p \in LayoutPairs : old = p[1] /\ new = p[2]
    /\ mapping = NoMapping
    /\ file = [text |-> ""]
    /\ config = "unset"
    /\ keyboard = "unset"
    /\ new_config = "unset"
    /\ stdout = <<>>
    /\ stderr = <<>>
    /\ exit_status = -1
    /\ history = <<>>

GetMapping ==
    /\ pc = "get_mapping"
    /\ mapping' = get_mapping(old, new)
    /\ pc' = "mapped"
    /\ UNCHANGED <<file, config, keyboard, new_config, stdout, stderr, exit_status,
                   history, old, new>>

NextMapping == GetMapping

SpecMapping == InitMapping /\ [][NextMapping]_vars

\* ------------------------------------------------- what map_config selects

\* map_config's choices for a source keyboard (lines 82-88).
FromLayer(kb) == IF kb = "KEYCHRON" THEN KEYCHRON_LAYER ELSE GMMK_LAYER

ToLayer(kb) == IF kb = "KEYCHRON" THEN GMMK_LAYER ELSE KEYCHRON_LAYER

SourceFixes(kb) == IF kb = "KEYCHRON" THEN KEYCHRON_FIXES ELSE GMMK_FIXES

KeychronToGmmk == get_mapping(KEYCHRON_LAYER, GMMK_LAYER)

GmmkToKeychron == get_mapping(GMMK_LAYER, KEYCHRON_LAYER)

IndexMapping(kb) == IF kb = "KEYCHRON" THEN KeychronToGmmk ELSE GmmkToKeychron

\* The source positions the index mapping sends to each destination position.
KeychronSources ==
    [j \in DOMAIN GMMK_LAYER |->
        {i \in DOMAIN KeychronToGmmk.val : KeychronToGmmk.val[i] = j}]

GmmkSources ==
    [j \in DOMAIN KEYCHRON_LAYER |->
        {i \in DOMAIN GmmkToKeychron.val : GmmkToKeychron.val[i] = j}]

Sources(kb) == IF kb = "KEYCHRON" THEN KeychronSources ELSE GmmkSources

\* Positions of main() after map_config has returned, and after it has raised.
MapReturned == pc \in {"print", "log"} \/ (pc = "exited" /\ exit_status = 0)

MapRaised == pc = "exited" /\ exit_status = 1 /\ keyboard \in {"KEYCHRON", "GMMK"}

AfterMap == MapReturned \/ MapRaised

\* ------------------------------------------------------------------ claims

\* C1: detect_keyboard returns KEYCHRON exactly for the identifier 875824656,
\* GMMK exactly for 839864388 and None for every other integer, and does not
\* raise on a configuration that has the field.
C1_DetectExact ==
    (pc \notin {"parse", "detect"} /\ "json" \in DOMAIN file
        /\ "vendorProductId" \in DOMAIN config) =>
        /\ keyboard \in {"KEYCHRON", "GMMK", "None"}
        /\ keyboard = "KEYCHRON" <=> config.vendorProductId = 875824656
        /\ keyboard = "GMMK" <=> config.vendorProductId = 839864388
        /\ keyboard = "None" <=> config.vendorProductId \notin {875824656, 839864388}

\* C1 witness: the identifier next to Keychron's has been detected as unknown.
C1_Witness ==
    pc = "check" /\ keyboard = "None" /\ config.vendorProductId = 875824657

\* C2 as stated: a configuration detected as Keychron is mapped to one with
\* the GMMK identifier and name whose layers each have length 87.
C2_Original ==
    (MapReturned /\ keyboard = "KEYCHRON") =>
        /\ new_config.vendorProductId = 839864388
        /\ new_config.name = "GMMK Pro"
        /\ \A k \in DOMAIN new_config.layers : len(new_config.layers[k]) = 87

\* C2 amended: for a configuration detected as Keychron whose layers all have
\* at least 96 elements, map_config returns a configuration with identifier
\* 839864388, name "GMMK Pro" and as many layers, each of length 88 (the size
\* of GMMK_LAYER); with a shorter layer, or without layers, it raises.
C2_Amended ==
    (AfterMap /\ keyboard = "KEYCHRON") =>
        IF "layers" \in DOMAIN config
              /\ \A k \in DOMAIN config.layers : len(config.layers[k]) >= 96
        THEN /\ MapReturned
             /\ new_config.vendorProductId = 839864388
             /\ new_config.name = "GMMK Pro"
             /\ DOMAIN new_config.layers = DOMAIN config.layers
             /\ \A k \in DOMAIN new_config.layers : len(new_config.layers[k]) = 88
        ELSE MapRaised

\* C2 witness: a Keychron configuration of two layers has been mapped.
C2_Witness ==
    /\ MapReturned
    /\ keyboard = "KEYCHRON"
    /\ len(new_config.layers) = 2
    /\ len(new_config.layers[1]) = 88

\* C3 as stated: whatever the length of an input layer, map_layer produces a
\* layer of the destination layout's size and no index is out of range.
C3_Original ==
    (AfterMap /\ "layers" \in DOMAIN config) =>
        /\ MapReturned
        /\ \A k \in DOMAIN new_config.layers :
               len(new_config.layers[k]) = len(ToLayer(keyboard))

\* C3 amended: for an input layer at least as long as the source layout,
\* map_layer returns a layer over exactly the destination layout's positions;
\* for a shorter one the read layer[idx] raises IndexError and no layer is
\* produced, so map_config returns only when every layer is long enough.
C3_Amended ==
    (AfterMap /\ "layers" \in DOMAIN config) =>
        /\ \A k \in DOMAIN config.layers :
               LET r == map_layer(config.layers[k], len(ToLayer(keyboard)),
                                  IndexMapping(keyboard), SourceFixes(keyboard))
               IN IF len(config.layers[k]) >= len(FromLayer(keyboard))
                  THEN r.exc = "None" /\ DOMAIN r.ret = DOMAIN ToLayer(keyboard)
                  ELSE r.exc = "IndexError"
        /\ IF \A k \in DOMAIN config.layers :
                  len(config.layers[k]) >= len(FromLayer(keyboard))
           THEN /\ MapReturned
                /\ \A k \in DOMAIN new_config.layers :
                       DOMAIN new_config.layers[k] = DOMAIN ToLayer(keyboard)
           ELSE MapRaised

\* C3 witness: a layer one longer than the source layout has been mapped to a
\* layer of the destination layout's size.
C3_Witness ==
    /\ MapReturned
    /\ \E k \in DOMAIN config.layers :
           /\ len(config.layers[k]) = len(FromLayer(keyboard)) + 1
           /\ len(new_config.layers[k]) = len(ToLayer(keyboard))

\* C4 as stated: every token of a source layer that is a key of the source
\* keyboard's fixup table appears as its replacement at the corresponding
\* destination position, and never as the original token.
C4_Original ==
    pc = "print" =>
        \A k \in DOMAIN config.layers :
            /\ \A idx \in DOMAIN config.layers[k] :
                   config.layers[k][idx] \in DOMAIN SourceFixes(keyboard).val =>
                       /\ idx \in DOMAIN IndexMapping(keyboard).val
                       /\ new_config.layers[k][IndexMapping(keyboard).val[idx]]
                              = SourceFixes(keyboard).val[config.layers[k][idx]]
            /\ \A j \in DOMAIN new_config.layers[k] :
                   new_config.layers[k][j] \notin DOMAIN SourceFixes(keyboard).val

\* C4 amended: every token that is a key of the source keyboard's fixup table
\* and stands at a source position the index mapping maps appears as its
\* replacement at the mapped destination position (at an unmapped position it
\* is dropped), and the original token appears nowhere in the output layer.
C4_Amended ==
    pc = "print" =>
        \A k \in DOMAIN config.layers :
            /\ \A idx \in DOMAIN config.layers[k] \cap DOMAIN IndexMapping(keyboard).val :
                   config.layers[k][idx] \in DOMAIN SourceFixes(keyboard).val =>
                       new_config.layers[k][IndexMapping(keyboard).val[idx]]
                           = SourceFixes(keyboard).val[config.layers[k][idx]]
            /\ \A j \in DOMAIN new_config.layers[k] :
                   new_config.layers[k][j] \notin DOMAIN SourceFixes(keyboard).val

\* C4 witness: CUSTOM(3) at a mapped Keychron position has come out as KC_RGUI
\* at the GMMK position.
C4_Witness ==
    /\ pc = "print"
    /\ keyboard = "KEYCHRON"
    /\ \E k \in DOMAIN config.layers :
           \E idx \in DOMAIN config.layers[k] \cap DOMAIN KeychronToGmmk.val :
               /\ config.layers[k][idx] = "CUSTOM(3)"
               /\ new_config.layers[k][KeychronToGmmk.val[idx]] = "KC_RGUI"

\* C5: a destination position holds KC_NO exactly when no source position
\* maps to it or every source position mapping to it holds KC_NO; a mapped
\* source position holding another token never leaves KC_NO behind.
C5_PlaceholderNeverWritten ==
    pc = "print" =>
        \A k \in DOMAIN config.layers :
            \A j \in DOMAIN new_config.layers[k] :
                new_config.layers[k][j] = "KC_NO"
                    <=> \A i \in Sources(keyboard)[j] : config.layers[k][i] = "KC_NO"

\* C5 witness: a mapped source position holding KC_NO has left the placeholder
\* at its destination, next to positions that were written.
C5_Witness ==
    /\ pc = "print"
    /\ \E k \in DOMAIN config.layers :
           /\ \E i \in DOMAIN IndexMapping(keyboard).val :
                  /\ FromLayer(keyboard)[i] # "KC_NO"
                  /\ config.layers[k][i] = "KC_NO"
                  /\ new_config.layers[k][IndexMapping(keyboard).val[i]] = "KC_NO"
           /\ \E j \in DOMAIN new_config.layers[k] : new_config.layers[k][j] # "KC_NO"

\* C6: with an identifier of neither profile the run ends with status 1 after
\* the diagnostic on standard error and prints no JSON; JSON is printed only
\* after a successful detection, and "Done." is logged only after the JSON.
C6_ExitAndOrder ==
    /\ (pc \notin {"parse", "detect"} /\ "json" \in DOMAIN file
           /\ "vendorProductId" \in DOMAIN config
           /\ config.vendorProductId \notin {875824656, 839864388}) =>
           /\ stdout = <<>>
           /\ pc \in {"check", "exited"}
           /\ pc = "check" => stderr = <<>> /\ ENABLED FailedToDetect
           /\ pc = "exited" =>
                  /\ exit_status = 1
                  /\ stderr = <<"Failed to detect which keyboard this config file is for.">>
    /\ stdout # <<>> => keyboard \in {"KEYCHRON", "GMMK"} /\ pc \in {"log", "exited"}
    /\ (\E n \in DOMAIN stderr : stderr[n] = "Done.") =>
           stdout # <<>> /\ stderr[Len(stderr)] = "Done."

\* C6 witness: a run on an unknown keyboard has ended with status 1 and
\* nothing on standard output.
C6_Witness ==
    /\ pc = "exited"
    /\ keyboard = "None"
    /\ exit_status = 1
    /\ stdout = <<>>
    /\ Len(stderr) = 1

\* C7: map_config returns the input with only vendorProductId, name and layers
\* replaced, output layer k being map_layer of input layer k, and leaves the
\* caller's configuration as it was parsed.
C7_Frame ==
    pc = "print" =>
        /\ config = file.json
        /\ DOMAIN new_config = DOMAIN config \cup {"vendorProductId", "name", "layers"}
        /\ \A key \in DOMAIN config \ {"vendorProductId", "name", "layers"} :
               new_config[key] = config[key]
        /\ DOMAIN new_config.layers = DOMAIN config.layers
        /\ \A k \in DOMAIN config.layers :
               new_config.layers[k]
                   = map_layer(config.layers[k], len(ToLayer(keyboard)),
                               IndexMapping(keyboard), SourceFixes(keyboard)).ret

\* C7 witness: a configuration with a macros field and two different layers
\* has been mapped.
C7_Witness ==
    /\ pc = "print"
    /\ "macros" \in DOMAIN config
    /\ new_config.macros = config.macros
    /\ len(config.layers) = 2
    /\ new_config.layers[0] # new_config.layers[1]
    /\ new_config.name # config.name

\* C8: GMMK position 53 (KC_DEL) is not in the GMMK-to-Keychron mapping, the
\* Keychron layer is the same whatever token stands there, and with KC_DEL
\* nowhere else in the GMMK layer no Keychron position holds KC_DEL.
C8_DeleteDropped ==
    (pc = "print" /\ keyboard = "GMMK") =>
        /\ GMMK_LAYER[53] = "KC_DEL"
        /\ 53 \notin DOMAIN GmmkToKeychron.val
        /\ \A k \in DOMAIN config.layers :
               /\ 53 \in DOMAIN config.layers[k] =>
                      \A t \in {"KC_NO", "KC_A", "KC_DEL", "CUSTOM(0)"} :
                          map_layer([config.layers[k] EXCEPT ![53] = t],
                                    len(KEYCHRON_LAYER), GmmkToKeychron, GMMK_FIXES).ret
                              = new_config.layers[k]
               /\ (\A i \in DOMAIN config.layers[k] :
                       config.layers[k][i] = "KC_DEL" => i = 53) =>
                      \A j \in DOMAIN new_config.layers[k] :
                          new_config.layers[k][j] # "KC_DEL"

\* C8 witness: a GMMK layer with KC_DEL at position 53 only has been mapped,
\* and so has one with another token there.
C8_Witness ==
    /\ pc = "print"
    /\ keyboard = "GMMK"
    /\ len(config.layers) = 2
    /\ config.layers[0][53] = "KC_DEL"
    /\ config.layers[1][53] = "CUSTOM(0)"
    /\ \A j \in DOMAIN new_config.layers[1] : new_config.layers[1][j] # "CUSTOM(0)"

\* C9: get_mapping maps exactly the source positions whose token is not KC_NO
\* and occurs in the destination layout, each to the first destination
\* position holding that token (so within range); between the two hardcoded
\* layouts it is injective in both directions.
C9_Mapping ==
    pc = "mapped" =>
        /\ DOMAIN mapping.val \subseteq DOMAIN old
        /\ \A i \in DOMAIN old :
               i \in DOMAIN mapping.val
                   <=> (old[i] # "KC_NO" /\ \E j \in DOMAIN new : new[j] = old[i])
        /\ \A i \in DOMAIN mapping.val :
               /\ 0 <= mapping.val[i] /\ mapping.val[i] < len(new)
               /\ new[mapping.val[i]] = old[i]
               /\ \A j \in 0..(mapping.val[i] - 1) : new[j] # old[i]
        /\ {old, new} = {KEYCHRON_LAYER, GMMK_LAYER} =>
               \A i1, i2 \in DOMAIN mapping.val :
                   mapping.val[i1] = mapping.val[i2] => i1 = i2

\* C9 witness: a token that occurs twice in the destination layout has been
\* mapped to its first position.
C9_Witness ==
    /\ pc = "mapped"
    /\ \E i \in DOMAIN mapping.val :
           /\ mapping.val[i] = 0
           /\ \E j \in DOMAIN new : j > 0 /\ new[j] = old[i]

\* The token a GMMK position holds after GMMK -> Keychron -> GMMK.
RoundTripToken(j, t) ==
    IF j = 53 \/ GMMK_LAYER[j] = "KC_NO" THEN "KC_NO"
    ELSE IF t = "CUSTOM(0)" THEN "KC_LALT"
    ELSE IF t = "CUSTOM(1)" THEN "KC_RALT"
    ELSE IF t = "CUSTOM(3)" THEN "KC_RGUI"
    ELSE t

\* C10: GMMK -> Keychron -> GMMK leaves KC_NO at position 53 and at the
\* positions whose GMMK layout token is KC_NO, and elsewhere the original
\* token with the Keychron fixups applied, so a layer with another token than
\* KC_NO at 53 is not reproduced; a second round trip changes nothing.
C10_RoundTrip ==
    Len(history) >= 2 =>
        /\ \A k \in DOMAIN history[1].json.layers :
               LET orig == history[1].json.layers[k]
                   back == IF Len(history) >= 3 THEN history[3].json.layers[k]
                           ELSE file.json.layers[k]
               IN /\ DOMAIN back = DOMAIN GMMK_LAYER
                  /\ \A j \in DOMAIN back : back[j] = RoundTripToken(j, orig[j])
                  /\ orig[53] # "KC_NO" => back # orig
        /\ (Len(history) = 3 /\ MapReturned) =>
               new_config.layers = history[3].json.layers

\* C10 witness: the fourth run, which ends the second round trip, has mapped a
\* layer list that began with KC_DEL at position 53 and CUSTOM(0) elsewhere.
C10_Witness ==
    /\ Len(history) = 3
    /\ MapReturned
    /\ history[1].json.layers[0][53] = "KC_DEL"
    /\ new_config.layers[0][53] = "KC_NO"
    /\ \E j \in DOMAIN GMMK_LAYER :
           /\ history[1].json.layers[0][j] = "CUSTOM(0)"
           /\ new_config.layers[0][j] = "KC_LALT"

====
